---------------------------- MODULE Spec2Model ----------------------------
(***************************************************************************)
(* Model of https-server.py: a development HTTPS file server.              *)
(*                                                                         *)
(* run_server() checks that the certificate files exist, constructs an     *)
(* http.server.HTTPServer, wraps its socket with TLS and runs              *)
(* serve_forever() until KeyboardInterrupt.  MyHTTPRequestHandler          *)
(* overrides end_headers() of http.server.SimpleHTTPRequestHandler to add  *)
(* three CORS headers.                                                     *)
(*                                                                         *)
(* The classes the source instantiates and inherits from (HTTPServer,      *)
(* SimpleHTTPRequestHandler, SSLContext) are modelled by what the CPython  *)
(* 3.11 library does at the call the source makes; each definition names   *)
(* the library routine it follows.                                         *)
(***************************************************************************)
EXTENDS Integers, Sequences, FiniteSets, TLC

(***************************************************************************)
(* Bounds of the model.                                                    *)
(***************************************************************************)
\* Number of client connections that arrive during one run.
MaxConns == 2

Conns == 1..MaxConns

(***************************************************************************)
(* Configuration (https-server.py lines 12-14).                            *)
(***************************************************************************)
PORT == 8443
CERT_FILE == "certs/server.crt"
KEY_FILE == "certs/server.key"

VARIABLES
    pc,          \* position of the main thread in run_server
    certFile,    \* state of CERT_FILE on disk: "absent", "invalid", "valid"
    keyFile,     \* state of KEY_FILE on disk
    portFree,    \* whether PORT can be bound
    sockOpen,    \* the listening TCP socket of httpd exists and is open
    ctxBuilt,    \* an ssl.SSLContext has been constructed
    fault,       \* exception that escaped run_server ("none" if none)
    stdout,      \* what run_server has printed, in order
    fs,          \* the file system: absolute path -> kind of node
    conn,        \* per connection: "Pending", "Handshaking", "Serving", "Closed"
    cur,         \* connection the main thread is inside of (0: none)
    req,         \* per connection: the request it sent (NoRequest before)
    sent,        \* per connection: the responses written to it
    outcome      \* per connection: how its handling ended

vars == <<pc, certFile, keyFile, portFree, sockOpen, ctxBuilt, fault, stdout,
          fs, conn, cur, req, sent, outcome>>

startupVars == <<pc, certFile, keyFile, portFree, sockOpen, ctxBuilt, fault, stdout>>
connVars == <<conn, cur, req, sent, outcome>>

FileStates == {"absent", "invalid", "valid"}

(***************************************************************************)
(* The file system the handler serves from.  The serving root is the       *)
(* process's working directory, here /srv.  /etc/passwd lies outside it.   *)
(***************************************************************************)
Root == <<"srv">>

FsNodes == { <<"srv">>, <<"srv", "index.html">>, <<"srv", "secret">>,
             <<"srv", "etc">>, <<"srv", "etc", "passwd">>,
             <<"etc">>, <<"etc", "passwd">> }

\* The file systems a run may start with: index.html present or not, secret
\* readable or not, a directory etc (holding passwd) inside the root or not.
FsVariants ==
    { f \in [FsNodes -> {"absent", "file", "noperm", "dir"}] :
        /\ f[<<"srv">>] = "dir"
        /\ f[<<"etc">>] = "dir"
        /\ f[<<"etc", "passwd">>] = "file"
        /\ f[<<"srv", "index.html">>] \in {"file", "absent"}
        /\ f[<<"srv", "secret">>] \in {"file", "noperm"}
        /\ \/ f[<<"srv", "etc">>] = "dir" /\ f[<<"srv", "etc", "passwd">>] = "file"
           \/ f[<<"srv", "etc">>] = "absent" /\ f[<<"srv", "etc", "passwd">>] = "absent" }

KindOf(p) == IF p \in DOMAIN fs THEN fs[p] ELSE "absent"

\* os.path.exists on the certificate files (line 26)
exists(state) == state # "absent"


(***************************************************************************)
(* Requests.  A request is its request line (the shape that parse_request  *)
(* distinguishes), its method, its path and whether it asks to keep the    *)
(* connection alive.  A path is the list of its "/"-separated components,  *)
(* whether it starts with "/" and whether it ends with "/".                *)
(***************************************************************************)
Path(abs, segs, slash) == [abs |-> abs, segs |-> segs, slash |-> slash]

Paths ==
    { Path(TRUE, <<>>, TRUE),                                   \* /
      Path(TRUE, <<"index.html">>, FALSE),                      \* /index.html
      Path(TRUE, <<"index.html">>, TRUE),                       \* /index.html/
      Path(TRUE, <<"nope">>, FALSE),                            \* /nope
      Path(TRUE, <<"secret">>, FALSE),                          \* /secret
      Path(TRUE, <<"etc">>, FALSE),                             \* /etc
      Path(TRUE, <<"etc">>, TRUE),                              \* /etc/
      Path(TRUE, <<"etc", "passwd">>, FALSE),                   \* /etc/passwd
      Path(TRUE, <<"..", "..", "etc", "passwd">>, FALSE),       \* /../../etc/passwd
      Path(FALSE, <<"..", "..", "etc", "passwd">>, FALSE),      \* ../../etc/passwd
      Path(TRUE, <<"etc", "..", "..", "index.html">>, FALSE),   \* /etc/../../index.html
      Path(TRUE, <<".", "..", "nope">>, FALSE) }                \* /./../nope

\* Request lines: "<method> <path> HTTP/1.1", "<method> <path> HTTP/1.0",
\* "<method> <path>" (HTTP/0.9), a third word that is no HTTP version,
\* "... HTTP/2.0", four words, a line over 65536 bytes, an empty line.
FullLines == {"HTTP/1.1", "HTTP/1.0"}
OddLines == {"HTTP/0.9", "BadVersion", "HTTP/2.0", "FourWords", "TooLong", "Empty"}
Lines == FullLines \cup OddLines

Request(line, command, path, keepalive) ==
    [line |-> line, command |-> command, path |-> path, keepalive |-> keepalive]

IndexPath == Path(TRUE, <<"index.html">>, FALSE)

Requests ==
    { Request("HTTP/1.1", "GET", p, FALSE) : p \in Paths }
    \cup { Request("HTTP/1.1", "HEAD", p, FALSE) :
             p \in { IndexPath, Path(TRUE, <<"nope">>, FALSE), Path(TRUE, <<"secret">>, FALSE),
                     Path(TRUE, <<"..", "..", "etc", "passwd">>, FALSE) } }
    \cup { Request("HTTP/1.1", "POST", Path(TRUE, <<"..", "..", "etc", "passwd">>, FALSE), FALSE) }
    \cup { Request(l, "GET", IndexPath, k) : l \in FullLines, k \in BOOLEAN }
    \cup { Request(l, m, IndexPath, FALSE) : l \in Lines \ {"HTTP/1.0"}, m \in {"GET", "POST"} }

(***************************************************************************)
(* posixpath.normpath, as translate_path calls it: "" and "." components   *)
(* are dropped, ".." removes the component before it, a ".." with nothing  *)
(* before it is dropped in an absolute path and kept in a relative one.    *)
(***************************************************************************)
RECURSIVE NormComps(_, _, _)
NormComps(comps, abs, acc) ==
    IF comps = <<>> THEN acc
    ELSE LET comp == Head(comps)
             rest == Tail(comps)
         IN  IF comp \in {"", "."} THEN NormComps(rest, abs, acc)
             ELSE IF \/ comp # ".."
                     \/ (~abs /\ acc = <<>>)
                     \/ (acc # <<>> /\ acc[Len(acc)] = "..")
                  THEN NormComps(rest, abs, Append(acc, comp))
             ELSE IF acc # <<>>
                  THEN NormComps(rest, abs, SubSeq(acc, 1, Len(acc) - 1))
             ELSE NormComps(rest, abs, acc)

normpath(p) == [p EXCEPT !.segs = NormComps(p.segs, p.abs, <<>>)]

\* The words translate_path keeps: not os.curdir, not os.pardir.
RECURSIVE SimpleWords(_)
SimpleWords(words) ==
    IF words = <<>> THEN <<>>
    ELSE IF Head(words) \in {".", ".."} THEN SimpleWords(Tail(words))
    ELSE <<Head(words)>> \o SimpleWords(Tail(words))

(***************************************************************************)
(* SimpleHTTPRequestHandler.translate_path: the file-system path a request *)
(* path names, as the list of its components from "/" and whether it ends  *)
(* with "/".  self.directory is the working directory, Root.               *)
(***************************************************************************)
\* translate_path joining the request path to the root as it stands.
translate_path_joined(p) ==
    [segs |-> NormComps(Root \o p.segs, TRUE, <<>>), slash |-> p.slash]


translate_path(p) ==
    [segs |-> Root \o SimpleWords(normpath(p).segs), slash |-> p.slash]

\* What a resolver that follows ".." would name: the root joined with the
\* path and normalised (posixpath.normpath of an absolute path).
NaiveResolve(p) == NormComps(Root \o p.segs, TRUE, <<>>)

IsPrefix(s, t) == Len(s) <= Len(t) /\ SubSeq(t, 1, Len(s)) = s

InsideRoot(segs) == IsPrefix(Root, segs)

isdir(segs) == KindOf(segs) = "dir"
isfile(segs) == KindOf(segs) \in {"file", "noperm"}
\* open(path, 'rb') succeeds
canOpen(segs) == KindOf(segs) = "file"


(***************************************************************************)
(* The request handler.  A handler value h holds the attributes of one     *)
(* BaseHTTPRequestHandler while it handles a request: request_version,     *)
(* command, close_connection, the _headers_buffer (buf), and what it has   *)
(* written to wfile: the status line (status; 0 if none was written), the  *)
(* header lines (headers), the number of header blocks ended (ended) and   *)
(* the body.  code is the status the handler decided (what it logs).       *)
(***************************************************************************)
\* BaseHTTPRequestHandler.protocol_version; the source does not override it.
protocol_version == "HTTP/1.0"

NoBody == [kind |-> "none", path |-> <<>>]
FileBody(segs) == [kind |-> "file", path |-> segs]
ListingBody(segs) == [kind |-> "listing", path |-> segs]
ErrorBody == [kind |-> "error", path |-> <<>>]

NewHandler ==
    [rv |-> "", command |-> "", close |-> TRUE, code |-> 0, status |-> 0,
     buf |-> <<>>, headers |-> <<>>, ended |-> 0, body |-> NoBody, f |-> NoBody]

\* BaseHTTPRequestHandler.send_response_only
send_response_only(h, code) ==
    IF h.rv # "HTTP/0.9"
    THEN [h EXCEPT !.status = code, !.code = code]
    ELSE [h EXCEPT !.code = code]

\* BaseHTTPRequestHandler.send_header
send_header(h, keyword, value) ==
    LET h1 == IF h.rv # "HTTP/0.9"
              THEN [h EXCEPT !.buf = Append(@, <<keyword, value>>)]
              ELSE h
    IN  IF keyword = "Connection" /\ value = "close" THEN [h1 EXCEPT !.close = TRUE]
        ELSE IF keyword = "Connection" /\ value = "keep-alive" THEN [h1 EXCEPT !.close = FALSE]
        ELSE h1

\* BaseHTTPRequestHandler.end_headers, which line 22 calls as super().end_headers():
\* the buffered header lines and the blank line are written to wfile.
base_end_headers(h) ==
    IF h.rv # "HTTP/0.9"
    THEN [h EXCEPT !.headers = @ \o h.buf, !.buf = <<>>, !.ended = @ + 1]
    ELSE h

\* The three headers of lines 19-21.
CORS_HEADERS ==
    << <<"Access-Control-Allow-Origin", "*">>,
       <<"Access-Control-Allow-Methods", "GET, POST, OPTIONS">>,
       <<"Access-Control-Allow-Headers", "Content-Type">> >>

\* end_headers with the third send_header left out.
end_headers_two_headers(h) ==
    base_end_headers(
        send_header(
            send_header(h, CORS_HEADERS[1][1], CORS_HEADERS[1][2]),
            CORS_HEADERS[2][1], CORS_HEADERS[2][2]))

\* end_headers calling super().end_headers() before the send_header calls:
\* the three headers stay in the buffer and leave with the next flush.
end_headers_late(h) ==
    send_header(
        send_header(
            send_header(base_end_headers(h), CORS_HEADERS[1][1], CORS_HEADERS[1][2]),
            CORS_HEADERS[2][1], CORS_HEADERS[2][2]),
        CORS_HEADERS[3][1], CORS_HEADERS[3][2])

\* MyHTTPRequestHandler.end_headers (lines 17-22)
end_headers(h) ==
    base_end_headers(
        send_header(
            send_header(
                send_header(h, CORS_HEADERS[1][1], CORS_HEADERS[1][2]),
                CORS_HEADERS[2][1], CORS_HEADERS[2][2]),
            CORS_HEADERS[3][1], CORS_HEADERS[3][2]))

\* BaseHTTPRequestHandler.send_response: status line, Server, Date
send_response(h, code) ==
    send_header(send_header(send_response_only(h, code), "Server", "SimpleHTTP"),
                "Date", "now")

\* BaseHTTPRequestHandler.send_error
send_error(h, code) ==
    LET h1 == send_header(send_response(h, code), "Connection", "close")
        hasBody == code >= 200 /\ code \notin {204, 205, 304}
        h2 == IF hasBody
              THEN send_header(send_header(h1, "Content-Type", "text/html"),
                               "Content-Length", "len")
              ELSE h1
        h3 == end_headers(h2)
    IN  IF h.command # "HEAD" /\ hasBody THEN [h3 EXCEPT !.body = ErrorBody] ELSE h3


\* SimpleHTTPRequestHandler.list_directory: os.listdir fails on a directory
\* without permission (404), else a listing is sent with status 200.
list_directory(h, path) ==
    IF KindOf(path.segs) # "dir"
    THEN send_error(h, 404)
    ELSE LET h1 == send_header(send_header(send_response(h, 200), "Content-type", "text/html"),
                               "Content-Length", "len")
         IN  [end_headers(h1) EXCEPT !.f = ListingBody(path.segs)]

\* send_head telling a permission error (403) from a missing file (404).
send_file_forbidden(h, path) ==
    IF path.slash THEN send_error(h, 404)
    ELSE IF KindOf(path.segs) = "noperm" THEN send_error(h, 403)
    ELSE IF ~canOpen(path.segs) THEN send_error(h, 404)
    ELSE LET h1 == send_header(
                       send_header(
                           send_header(send_response(h, 200), "Content-type", "guess"),
                           "Content-Length", "len"),
                       "Last-Modified", "mtime")
         IN  [end_headers(h1) EXCEPT !.f = FileBody(path.segs)]

\* The tail of SimpleHTTPRequestHandler.send_head, for a path that is no
\* directory: 404 for a trailing "/" or when open() raises OSError (absent,
\* permission denied), else status 200, the content headers, and the file.
send_file(h, path) ==
    IF path.slash THEN send_error(h, 404)
    ELSE IF ~canOpen(path.segs) THEN send_error(h, 404)
    ELSE LET h1 == send_header(
                       send_header(
                           send_header(send_response(h, 200), "Content-type", "guess"),
                           "Content-Length", "len"),
                       "Last-Modified", "mtime")
         IN  [end_headers(h1) EXCEPT !.f = FileBody(path.segs)]

IndexNames == <<"index.html", "index.htm">>

\* SimpleHTTPRequestHandler.send_head
send_head(h, urlpath) ==
    LET path == translate_path(urlpath)
    IN  IF isdir(path.segs)
        THEN IF ~urlpath.slash
             THEN \* redirect to the path with "/" appended
                  end_headers(
                      send_header(
                          send_header(send_response(h, 301), "Location", "path/"),
                          "Content-Length", "0"))
             ELSE IF \E i \in 1..Len(IndexNames) : isfile(Append(path.segs, IndexNames[i]))
                  THEN LET i == CHOOSE i \in 1..Len(IndexNames) :
                                  /\ isfile(Append(path.segs, IndexNames[i]))
                                  /\ \A j \in 1..(i - 1) : ~isfile(Append(path.segs, IndexNames[j]))
                       IN  send_file(h, [segs |-> Append(path.segs, IndexNames[i]),
                                         slash |-> FALSE])
                  ELSE list_directory(h, path)
        ELSE send_file(h, path)

\* SimpleHTTPRequestHandler.do_GET: the file send_head returns is copied to wfile.
do_GET(h, urlpath) ==
    LET h1 == send_head(h, urlpath)
    IN  IF h1.f # NoBody THEN [h1 EXCEPT !.body = h1.f] ELSE h1

\* SimpleHTTPRequestHandler.do_HEAD: the file is closed, nothing is copied.
do_HEAD(h, urlpath) == send_head(h, urlpath)

\* Number of words of the request line.
NWords(r) ==
    CASE r.line = "Empty" -> 0
      [] r.line = "HTTP/0.9" -> 2
      [] r.line = "FourWords" -> 4
      [] OTHER -> 3

\* The last word of a request line of three words or more.
VersionWord(r) ==
    CASE r.line = "BadVersion" -> "FOO"
      [] r.line = "FourWords" -> "HTTP/1.1"
      [] OTHER -> r.line

\* BaseHTTPRequestHandler.parse_request: [ok, h]; on failure the error
\* response, if any, has been sent.
parse_request(h, r) ==
    LET h0 == [h EXCEPT !.command = "None", !.rv = "HTTP/0.9", !.close = TRUE]
        n == NWords(r)
        version == VersionWord(r)
        h1 == IF n >= 3 /\ version = "HTTP/1.1" /\ protocol_version = "HTTP/1.1"
              THEN [h0 EXCEPT !.close = FALSE]
              ELSE h0
        h2 == IF n >= 3 THEN [h1 EXCEPT !.rv = version] ELSE h1
        h3 == [h2 EXCEPT !.command = r.command]
        \* the Connection header of the request
        h4 == IF r.keepalive /\ protocol_version = "HTTP/1.1"
              THEN [h3 EXCEPT !.close = FALSE]
              ELSE h3
    IN  IF n = 0 THEN [ok |-> FALSE, h |-> h0]
        ELSE IF n >= 3 /\ version \notin {"HTTP/1.0", "HTTP/1.1", "HTTP/2.0"}
             THEN [ok |-> FALSE, h |-> send_error(h0, 400)]
        ELSE IF n >= 3 /\ version = "HTTP/2.0"
             THEN [ok |-> FALSE, h |-> send_error(h1, 505)]
        ELSE IF ~(2 <= n /\ n <= 3)
             THEN [ok |-> FALSE, h |-> send_error(h2, 400)]
        ELSE IF n = 2 /\ r.command # "GET"
             THEN [ok |-> FALSE, h |-> send_error(h2, 400)]
        ELSE [ok |-> TRUE, h |-> h4]

\* BaseHTTPRequestHandler.handle_one_request
handle_one_request(h, r) ==
    IF r.line = "TooLong"
    THEN send_error([h EXCEPT !.rv = "", !.command = ""], 414)
    ELSE LET p == parse_request(h, r)
         IN  IF ~p.ok THEN p.h
             ELSE IF p.h.command = "GET" THEN do_GET(p.h, r.path)
             ELSE IF p.h.command = "HEAD" THEN do_HEAD(p.h, r.path)
             ELSE send_error(p.h, 501)

(***************************************************************************)
(* What one call of handle_one_request puts on the wire.                   *)
(***************************************************************************)
Response(h) ==
    [written |-> (h.ended > 0 \/ h.body # NoBody),
     code |-> h.code, status |-> h.status, headers |-> h.headers,
     ended |-> h.ended, body |-> h.body]

Respond(r) == Response(handle_one_request(NewHandler, r))


(***************************************************************************)
(* run_server                                                              *)
(***************************************************************************)
Line(kind, text, paths) == [kind |-> kind, text |-> text, paths |-> paths]

\* The condition of line 26 with "and" for "or".
CertificatesMissingBoth == ~exists(certFile) /\ ~exists(keyFile)

\* The condition of line 26.
CertificatesMissing == ~exists(certFile) \/ ~exists(keyFile)

\* A message naming only the paths that do not exist.
LookingForAbsent ==
    {f \in {CERT_FILE} : ~exists(certFile)} \cup {f \in {KEY_FILE} : ~exists(keyFile)}

\* The paths the message of line 28 names.
LookingFor == {CERT_FILE, KEY_FILE}

\* Lines 27-28.
MissingDiagnostic ==
    << Line("error", "Error: SSL certificates not found!", {}),
       Line("error", "Looking for:", LookingFor) >>

\* Lines 40-47.
Banner == << Line("banner", "HTTPS Server running on https://localhost:8443",
                  {CERT_FILE, KEY_FILE}) >>

\* Line 52.
ShutdownNotice == << Line("notice", "Server stopped", {}) >>

\* ssl.SSLContext.load_cert_chain (line 37) accepts the files.
CertChainLoads == certFile = "valid" /\ keyFile = "valid"

Init ==
    /\ pc = "Unstarted"
    /\ certFile \in FileStates
    /\ keyFile \in FileStates
    /\ portFree \in BOOLEAN
    /\ sockOpen = FALSE
    /\ ctxBuilt = FALSE
    /\ fault = "none"
    /\ stdout = <<>>
    /\ fs \in FsVariants
    /\ conn = [c \in Conns |-> "Pending"]
    /\ cur = 0
    /\ req = [c \in Conns |-> <<>>]
    /\ sent = [c \in Conns |-> <<>>]
    /\ outcome = [c \in Conns |-> "none"]

\* Lines 26-29: the existence check; on failure the diagnostic and return.
CheckCertificates ==
    /\ pc = "Unstarted"
    /\ IF CertificatesMissing
       THEN /\ pc' = "Exited"
            /\ stdout' = stdout \o MissingDiagnostic
       ELSE /\ pc' = "Checked"
            /\ stdout' = stdout
    /\ UNCHANGED <<certFile, keyFile, portFree, sockOpen, ctxBuilt, fault, fs>>
    /\ UNCHANGED connVars

\* Lines 32-33: HTTPServer(...) creates, binds and activates the listening
\* socket; if bind fails TCPServer.__init__ closes the socket and re-raises.
CreateServer ==
    /\ pc = "Checked"
    /\ IF portFree
       THEN /\ pc' = "Bound"
            /\ sockOpen' = TRUE
            /\ fault' = fault
       ELSE /\ pc' = "Crashed"
            /\ sockOpen' = FALSE
            /\ fault' = "OSError"
    /\ UNCHANGED <<certFile, keyFile, portFree, ctxBuilt, stdout, fs>>
    /\ UNCHANGED connVars

\* Lines 36-38: the TLS context is constructed, the certificate chain is
\* loaded and the socket is wrapped.  load_cert_chain raises on files that
\* exist but are unreadable or hold no valid key material; nothing catches
\* it and nothing closes httpd.
WrapSocket ==
    /\ pc = "Bound"
    /\ ctxBuilt' = TRUE
    /\ IF CertChainLoads
       THEN /\ pc' = "Wrapped"
            /\ fault' = fault
       ELSE /\ pc' = "Crashed"
            /\ fault' = "SSLError"
    /\ UNCHANGED <<certFile, keyFile, portFree, sockOpen, stdout, fs>>
    /\ UNCHANGED connVars

\* Lines 40-50: the banner is printed and serve_forever is entered.
ServeForever ==
    /\ pc = "Wrapped"
    /\ pc' = "Accepting"
    /\ stdout' = stdout \o Banner
    /\ UNCHANGED <<certFile, keyFile, portFree, sockOpen, ctxBuilt, fault, fs>>
    /\ UNCHANGED connVars

(***************************************************************************)
(* serve_forever (line 50): BaseServer._handle_request_noblock, run by the *)
(* main thread for one connection at a time.                               *)
(***************************************************************************)
\* A server that hands each connection to a thread of its own.
MainThreadIdleThreaded == TRUE

\* The main thread is in the select() of serve_forever, inside no connection.
MainThreadIdle == cur = 0

\* The listen queue hands out connections in arrival order.
NextPending(c) == conn[c] = "Pending" /\ \A d \in Conns : d < c => conn[d] # "Pending"

\* get_request: SSLSocket.accept takes the connection and starts the
\* (blocking) TLS handshake.
Accept(c) ==
    /\ pc = "Accepting"
    /\ MainThreadIdle
    /\ NextPending(c)
    /\ conn' = [conn EXCEPT ![c] = "Handshaking"]
    /\ cur' = c
    /\ UNCHANGED <<req, sent, outcome, fs>>
    /\ UNCHANGED startupVars

\* The handshake completes: get_request returns the connection.
HandshakeDone(c) ==
    /\ pc = "Accepting"
    /\ cur = c
    /\ conn[c] = "Handshaking"
    /\ conn' = [conn EXCEPT ![c] = "Serving"]
    /\ UNCHANGED <<cur, req, sent, outcome, fs>>
    /\ UNCHANGED startupVars

\* get_request's OSError not caught: it leaves serve_forever and run_server.
AfterHandshakeErrorUncaught == "Crashed"

\* Where the main thread is after get_request raised OSError
\* (ssl.SSLError, ConnectionResetError): _handle_request_noblock returns.
AfterHandshakeError == "Accepting"

\* The handshake fails: "except OSError: return".
HandshakeFailed(c) ==
    /\ pc = "Accepting"
    /\ cur = c
    /\ conn[c] = "Handshaking"
    /\ conn' = [conn EXCEPT ![c] = "Closed"]
    /\ outcome' = [outcome EXCEPT ![c] = "handshake_failed"]
    /\ cur' = 0
    /\ pc' = AfterHandshakeError
    /\ UNCHANGED <<certFile, keyFile, portFree, sockOpen, ctxBuilt, fault, stdout>>
    /\ UNCHANGED <<req, sent, fs>>

\* finish_request: the handler handles one request of the connection
\* (BaseHTTPRequestHandler.handle), and shutdown_request closes the
\* connection once close_connection is set.
HandleRequest(c, r) ==
    /\ pc = "Accepting"
    /\ cur = c
    /\ conn[c] = "Serving"
    /\ LET h == handle_one_request(NewHandler, r)
       IN  /\ req' = [req EXCEPT ![c] = Append(@, r)]
           /\ sent' = [sent EXCEPT ![c] = Append(@, Response(h))]
           /\ IF h.close
              THEN /\ conn' = [conn EXCEPT ![c] = "Closed"]
                   /\ outcome' = [outcome EXCEPT ![c] = "handled"]
                   /\ cur' = 0
              ELSE UNCHANGED <<conn, outcome, cur>>
    /\ UNCHANGED fs
    /\ UNCHANGED startupVars

\* The handler raises (the client resets the connection while the request
\* is read or the response written): "except Exception: handle_error;
\* shutdown_request".
HandlerRaises(c) ==
    /\ pc = "Accepting"
    /\ cur = c
    /\ conn[c] = "Serving"
    /\ conn' = [conn EXCEPT ![c] = "Closed"]
    /\ outcome' = [outcome EXCEPT ![c] = "exception"]
    /\ cur' = 0
    /\ UNCHANGED <<req, sent, fs>>
    /\ UNCHANGED startupVars

\* Lines 51-52: KeyboardInterrupt leaves serve_forever (closing the
\* connection being handled, if any: "except: shutdown_request; raise"),
\* and the notice is printed.  httpd is not closed.
KeyboardInterrupt ==
    /\ pc = "Accepting"
    /\ pc' = "Stopped"
    /\ stdout' = stdout \o ShutdownNotice
    /\ IF cur # 0
       THEN /\ conn' = [conn EXCEPT ![cur] = "Closed"]
            /\ outcome' = [outcome EXCEPT ![cur] = "interrupted"]
       ELSE UNCHANGED <<conn, outcome>>
    /\ cur' = 0
    /\ UNCHANGED <<certFile, keyFile, portFree, sockOpen, ctxBuilt, fault, fs, req, sent>>

Next ==
    \/ CheckCertificates
    \/ CreateServer
    \/ WrapSocket
    \/ ServeForever
    \/ \E c \in Conns : Accept(c)
    \/ \E c \in Conns : HandshakeDone(c)
    \/ \E c \in Conns : HandshakeFailed(c)
    \/ \E c \in Conns, r \in Requests : HandleRequest(c, r)
    \/ \E c \in Conns : HandlerRaises(c)
    \/ KeyboardInterrupt

Spec == Init /\ [][Next]_vars


(***************************************************************************)
(* Properties.                                                             *)
(***************************************************************************)
\* The three headers as the specification words them.
SpecCors ==
    << <<"Access-Control-Allow-Origin", "*">>,
       <<"Access-Control-Allow-Methods", "GET, POST, OPTIONS">>,
       <<"Access-Control-Allow-Headers", "Content-Type">> >>

\* The exchanges so far: connection and index of the request on it.
Exchanges == UNION { { <<c, i>> : i \in 1..Len(sent[c]) } : c \in Conns }
Req(e) == req[e[1]][e[2]]
Resp(e) == sent[e[1]][e[2]]

\* Responses that put something on the wire.
Written == { e \in Exchanges : Resp(e).written }

HasHeader(resp, hd) == \E j \in 1..Len(resp.headers) : resp.headers[j] = hd
Count(resp, hd) == Cardinality({ j \in 1..Len(resp.headers) : resp.headers[j] = hd })

CarriesCors(resp) == \A k \in 1..3 : HasHeader(resp, SpecCors[k])

CorsLastInOrder(resp) ==
    /\ Len(resp.headers) >= 3
    /\ SubSeq(resp.headers, Len(resp.headers) - 2, Len(resp.headers)) = SpecCors
    /\ \A k \in 1..3 : Count(resp, SpecCors[k]) = 1
    /\ resp.ended = 1

\* C1 as stated: every response the server transmits, whatever its status
\* and whatever path of the base handler produced it, carries the three
\* CORS headers with exactly the specified names and values.
C1_EveryResponseCarriesCors ==
    \A e \in Written : CarriesCors(Resp(e))

\* C1 as amended: every response that has a status line (a header block)
\* carries the three CORS headers with exactly the specified names and
\* values, whatever its status; a response sent while request_version is
\* "HTTP/0.9" (a two-word request line, an unparsable or a 2.x version word)
\* has no status line and no header at all.
C1_HeaderBlockCarriesCors ==
    \A e \in Written :
        /\ Resp(e).status # 0 => CarriesCors(Resp(e))
        /\ Resp(e).status = 0 => Resp(e).headers = <<>>

\* C1 witness: a success (200) on one connection and an error (404) on
\* another have both been sent with the three headers.
C1_Witness ==
    /\ \E e \in Written : Resp(e).status = 200 /\ CarriesCors(Resp(e))
    /\ \E e \in Written : Resp(e).status = 404 /\ CarriesCors(Resp(e))

\* C2 as stated: in every response the three CORS headers are appended
\* exactly once each, in the order Allow-Origin, Allow-Methods,
\* Allow-Headers, after all headers of the base handler (they are the last
\* three headers) and before the one finalisation of the header block.
C2_EveryResponseCorsLast ==
    \A e \in Written : CorsLastInOrder(Resp(e))

\* C2 as amended: the same, for every response that has a status line; a
\* response sent while request_version is "HTTP/0.9" has no header block,
\* and the three headers are not appended to it.
C2_HeaderBlockCorsLast ==
    \A e \in Written :
        /\ Resp(e).status # 0 => CorsLastInOrder(Resp(e))
        /\ Resp(e).status = 0 => Resp(e).ended = 0 /\ Resp(e).headers = <<>>

\* C2 witness: a redirect has been sent whose base headers (Server, Date,
\* Location, Content-Length) are followed by exactly the three CORS headers.
C2_Witness ==
    \E e \in Written :
        /\ Resp(e).status = 301
        /\ Len(Resp(e).headers) = 7
        /\ Resp(e).headers[4] = <<"Content-Length", "0">>
        /\ CorsLastInOrder(Resp(e))


\* The paths that are absent when run_server starts.
ActuallyMissing ==
    {f \in {CERT_FILE} : certFile = "absent"} \cup {f \in {KEY_FILE} : keyFile = "absent"}

\* The paths the error output names.
ReportedMissing ==
    UNION { stdout[i].paths : i \in { j \in 1..Len(stdout) : stdout[j].kind = "error" } }

Busy == { c \in Conns : conn[c] \in {"Handshaking", "Serving"} }

\* C3: if the certificate file or the key file (or both) is absent at
\* startup, no socket is ever opened, no TLS context is built, no connection
\* is accepted, and run_server ends (returns) leaving nothing behind.
C3_MissingFilesNoSocket ==
    ActuallyMissing # {} =>
        /\ ~sockOpen
        /\ ~ctxBuilt
        /\ \A c \in Conns : conn[c] = "Pending"
        /\ cur = 0
        /\ fault = "none"
        /\ pc \in {"Unstarted", "Exited"}

\* C3 witness: run_server has returned with only the key file absent.
C3_Witness ==
    /\ pc = "Exited"
    /\ certFile # "absent"
    /\ keyFile = "absent"
    /\ ~sockOpen

\* C4 as stated: when startup fails for missing certificate material, the
\* set of paths the diagnostic reports equals the set of absent paths, in
\* each of the three cases.
C4_DiagnosticNamesMissingOnly ==
    pc = "Exited" => ReportedMissing = ActuallyMissing

\* C4 as amended: when startup fails for missing certificate material, the
\* diagnostic names both configured paths in each of the three cases: the
\* paths it names include every absent path, and are exactly the absent
\* paths only when both are absent.
C4_DiagnosticNamesBothPaths ==
    pc = "Exited" =>
        /\ ActuallyMissing # {}
        /\ ReportedMissing = {CERT_FILE, KEY_FILE}
        /\ ActuallyMissing \subseteq ReportedMissing
        /\ (ReportedMissing = ActuallyMissing) <=>
               (certFile = "absent" /\ keyFile = "absent")

\* C4 witness: startup has failed with only the certificate absent, and the
\* diagnostic has been printed.
C4_Witness ==
    /\ pc = "Exited"
    /\ ActuallyMissing = {CERT_FILE}
    /\ Len(stdout) = 2

\* C5: after an interrupt in the Accepting state the accept loop has
\* stopped, the listening socket is closed, the shutdown notice is printed,
\* and the process is Stopped with no unhandled fault; only the interrupt
\* leads there.
C5_InterruptStopsAndCloses ==
    pc = "Stopped" =>
        /\ Busy = {}
        /\ cur = 0
        /\ ~sockOpen
        /\ stdout # <<>> /\ stdout[Len(stdout)].kind = "notice"
        /\ fault = "none"

\* C6: a fatal startup error ends the process only before the Bound state:
\* in no reachable state has the listening socket been opened and startup
\* then failed.
C6_StartupFailsOnlyBeforeBound ==
    (pc = "Crashed" \/ fault # "none") => ~sockOpen

\* C7: a TLS handshake failure on one connection is confined to it: the
\* listener stays Accepting (until the operator interrupts), the process
\* does not fail, the failed connection gets no response, and every other
\* connection gets the response its own request determines.
C7_HandshakeFailureConfined ==
    (\E c \in Conns : outcome[c] = "handshake_failed") =>
        /\ pc \in {"Accepting", "Stopped"}
        /\ pc = "Stopped" => stdout[Len(stdout)].kind = "notice"
        /\ fault = "none"
        /\ sockOpen
        /\ \A c \in Conns : outcome[c] = "handshake_failed" =>
               conn[c] = "Closed" /\ sent[c] = <<>>
        /\ \A e \in Exchanges : Resp(e) = Respond(Req(e))

\* C7 witness: the first connection failed its handshake and the second was
\* then accepted, handshaken and served a file.
C7_Witness ==
    /\ outcome[1] = "handshake_failed"
    /\ outcome[2] = "handled"
    /\ sent[2][1].status = 200
    /\ sent[2][1].body.kind = "file"
    /\ pc = "Accepting"


\* The request reached a do_ method: a well-formed HTTP/1.x request line.
WellFormed(r) == r.line \in FullLines

\* The request path, resolved with ".." followed, leaves the serving root.
Escapes(r) == ~InsideRoot(NaiveResolve(r.path))

ServesOutsideRoot(resp) ==
    resp.body.kind \in {"file", "listing"} /\ ~InsideRoot(resp.body.path)

Target(r) == translate_path(r.path).segs

NotFound(r) ==
    WellFormed(r) /\ r.command \in {"GET", "HEAD"} /\ KindOf(Target(r)) = "absent"
PermissionDenied(r) ==
    WellFormed(r) /\ r.command \in {"GET", "HEAD"} /\ KindOf(Target(r)) = "noperm"
UnsupportedMethod(r) ==
    WellFormed(r) /\ r.command \notin {"GET", "HEAD"}

\* The listener and the other requests are untouched by the requests handled.
RequestsIsolated ==
    /\ Exchanges # {} => pc \in {"Accepting", "Stopped"} /\ fault = "none" /\ sockOpen
    /\ \A e \in Exchanges : Resp(e) = Respond(Req(e))

IsErrorReply(resp, codes) ==
    /\ resp.written
    /\ resp.status \in codes
    /\ CarriesCors(resp)

\* C9 as stated: a nonexistent path gives 404, a permission or other
\* file-system error gives a 403/500-class status, a method other than GET
\* and HEAD gives the method-not-supported status; each is an HTTP error
\* response to that client only: the listener stays Accepting and the other
\* responses are unchanged.
C9_RequestErrorsByClass ==
    /\ RequestsIsolated
    /\ \A e \in Exchanges :
           /\ NotFound(Req(e)) => IsErrorReply(Resp(e), {404})
           /\ PermissionDenied(Req(e)) => IsErrorReply(Resp(e), {403} \cup (500..599))
           /\ UnsupportedMethod(Req(e)) => IsErrorReply(Resp(e), {501, 405})

\* C9 as amended: a nonexistent path gives 404, a file that exists but
\* cannot be opened (permission denied) gives 404 as well, a method other
\* than GET and HEAD gives 501; each is an HTTP error response to that client
\* only: the listener stays Accepting and the other responses are unchanged.
C9_RequestErrorsConfined ==
    /\ RequestsIsolated
    /\ \A e \in Exchanges :
           /\ NotFound(Req(e)) => IsErrorReply(Resp(e), {404})
           /\ PermissionDenied(Req(e)) => IsErrorReply(Resp(e), {404})
           /\ UnsupportedMethod(Req(e)) => IsErrorReply(Resp(e), {501})

\* C9 witness: the first connection asked for a file it may not read and
\* got 404; the second was then served a file with 200.
C9_Witness ==
    /\ Len(req[1]) = 1 /\ PermissionDenied(req[1][1])
    /\ sent[1][1].status = 404
    /\ Len(req[2]) = 1 /\ sent[2][1].status = 200
    /\ pc = "Accepting"

\* C10: connections are handled one at a time by the main thread: at most
\* one connection is Handshaking or Serving, it is the one the main thread
\* is in, no connection is accepted before every earlier one is Closed, and
\* while one is Handshaking or Serving no other can be accepted.
C10_OneConnectionAtATime ==
    /\ Cardinality(Busy) <= 1
    /\ \A c \in Busy : cur = c
    /\ \A c, d \in Conns : (c < d /\ conn[d] # "Pending") => conn[c] = "Closed"
    /\ Busy # {} => \A d \in Conns : ~ENABLED Accept(d)

\* C10 witness: the first connection has been served and closed, and only
\* then the second was accepted; it is in its handshake, the main thread
\* inside it.
C10_Witness ==
    /\ pc = "Accepting"
    /\ conn[1] = "Closed" /\ outcome[1] = "handled"
    /\ conn[2] = "Handshaking"
    /\ cur = 2

=============================================================================
